---- MODULE Spec2Model ----
(***************************************************************************)
(* A model of dsldoc (src/main.rs): the line classifier, the line sequence *)
(* validator, the inline tag scanner, the duplicate-key tracker and the    *)
(* repair engine.  A string is a sequence of one-character strings, so     *)
(* that prefixes, trimming and character scans are computed as the code    *)
(* computes them.  A DState value is the string of its Rust name.          *)
(***************************************************************************)
EXTENDS Naturals, Sequences, FiniteSets, TLC

VARIABLES
    cmd,      \* args[1]: "check" or "fix-tags", or the routine run on one line
    pc,       \* position of the running routine: "loop", "scan" or "done"
    cont,     \* check_grammar: the decoded document, a sequence of lines
    idx,      \* check_grammar: number of lines consumed (the enumerate index)
    prev,     \* check_grammar: the validator's current state
    words,    \* check_grammar: HashMap<String, usize>, headword line -> first index
    out,      \* check_grammar: the diagnostics printed so far
    rvec,     \* fix_invalid_tags: the lines collected for the output file
    outf,     \* fix_invalid_tags: the lines written to the output file
    line,     \* parse_line / fix_up_line: the argument s
    pos,      \* parse_line / fix_up_line: characters of the line consumed
    in_sq,    \* parse_line / fix_up_line: inside a bracket token
    tag,      \* parse_line / fix_up_line: the token accumulated
    stack,    \* parse_line: the open tags
    last_c,   \* parse_line / fix_up_line: the previous character
    res,      \* fix_up_line: the output built so far
    ret       \* parse_line: the returned diagnostic (<<>> is String::new())

vars == <<cmd, pc, cont, idx, prev, words, out, rvec, outf, line, pos, in_sq, tag, stack, last_c, res, ret>>

docVars == <<cont, idx, prev, words, out, rvec, outf>>
lineVars == <<line, pos, in_sq, tag, stack, last_c, res, ret>>

----------------------------------------------------------------------------
(* Bounds of the model.                                                    *)

\* Lines of a document after its fixed head.
MaxTail == 3
\* Pieces (single characters and "[lang id=") of a raw line.
MaxRaw == 4
\* Pieces (whole tags, a tab, a letter) of a tagged line.
MaxTags == 2
\* Pieces of a nested line (two tag pairs, an unknown tag, a letter).
MaxNest == 4

----------------------------------------------------------------------------
(* String primitives of the Rust standard library, as the code uses them.  *)

IsWhitespace(c) == c \in {" ", "\t"}

RECURSIVE TrimStart(_)
TrimStart(s) ==
    IF s # <<>> /\ IsWhitespace(Head(s)) THEN TrimStart(Tail(s)) ELSE s

RECURSIVE TrimEnd(_)
TrimEnd(s) ==
    IF s # <<>> /\ IsWhitespace(s[Len(s)]) THEN TrimEnd(SubSeq(s, 1, Len(s) - 1)) ELSE s

\* str::trim
Trim(s) == TrimEnd(TrimStart(s))

\* str::starts_with
StartsWith(s, p) == Len(s) >= Len(p) /\ SubSeq(s, 1, Len(p)) = p

\* str::contains
Contains(s, p) == \E i \in 1..(Len(s) + 1) : StartsWith(SubSeq(s, i, Len(s)), p)

\* str::trim_end_matches(|c| c == ']')
RECURSIVE TrimEndBrackets(_)
TrimEndBrackets(s) ==
    IF s # <<>> /\ s[Len(s)] = "]" THEN TrimEndBrackets(SubSeq(s, 1, Len(s) - 1)) ELSE s

----------------------------------------------------------------------------
(* The literals of tag_type and line_type.                                 *)

T_lang_id == <<"[", "l", "a", "n", "g", " ", "i", "d", "=">>
T_com == <<"[", "c", "o", "m", "]">>
T_com_close == <<"[", "/", "c", "o", "m", "]">>
T_m1 == <<"[", "m", "1", "]">>
T_m2 == <<"[", "m", "2", "]">>
T_m_close == <<"[", "/", "m", "]">>
T_p == <<"[", "p", "]">>
T_p_close == <<"[", "/", "p", "]">>
T_i == <<"[", "i", "]">>
T_i_close == <<"[", "/", "i", "]">>
T_ex == <<"[", "e", "x", "]">>
T_ex_close == <<"[", "/", "e", "x", "]">>
T_c == <<"[", "c", "]">>
T_c_close == <<"[", "/", "c", "]">>
T_b == <<"[", "b", "]">>
T_b_close == <<"[", "/", "b", "]">>
T_lang_close == <<"[", "/", "l", "a", "n", "g", "]">>

P_name == <<"#", "N", "A", "M", "E", " ">>
P_index == <<"#", "I", "N", "D", "E", "X", "_", "L", "A", "N", "G", "U", "A", "G", "E", " ">>
P_lang == <<"#", "C", "O", "N", "T", "E", "N", "T", "S", "_", "L", "A", "N", "G", "U", "A", "G", "E", " ">>

Romans ==
    { <<"I">>, <<"I", "I">>, <<"I", "I", "I">>, <<"I", "V">>, <<"V">>, <<"V", "I">>,
      <<"V", "I", "I">>, <<"V", "I", "I", "I">>, <<"I", "X">>, <<"X">> }

----------------------------------------------------------------------------
(* tag_type, line_type, can_follow.                                        *)

tag_type(s) ==
    IF StartsWith(s, T_lang_id) THEN "LangID"
    ELSE CASE s = T_com -> "Comment"
           [] s = T_com_close -> "ComClose"
           [] s = T_m1 -> "M1"
           [] s = T_m2 -> "M2"
           [] s = T_m_close -> "MClose"
           [] s = T_p -> "P"
           [] s = T_p_close -> "PClose"
           [] s = T_i -> "I"
           [] s = T_i_close -> "IClose"
           [] s = T_ex -> "Ex"
           [] s = T_ex_close -> "ExClose"
           [] s = T_c -> "C"
           [] s = T_c_close -> "CClose"
           [] s = T_b -> "B"
           [] s = T_b_close -> "BClose"
           [] s = T_lang_close -> "LangIDClose"
           [] OTHER -> "Invalid"

\* line_type with the test for "[com]" made before the test for "\t[".
line_type_comment_first(s) ==
    IF s = <<>> THEN "EmptyLine"
    ELSE IF StartsWith(s, P_name) THEN "Name"
    ELSE IF StartsWith(s, P_index) THEN "Index"
    ELSE IF StartsWith(s, P_lang) THEN "Lang"
    ELSE IF ~StartsWith(s, <<"\t">>) THEN "Key"
    ELSE IF Trim(s) \in Romans THEN "RomanNumber"
    ELSE IF Contains(s, T_com) THEN "Comment"
    ELSE IF ~StartsWith(s, <<"\t", "[">>) THEN "Text"
    ELSE IF StartsWith(s, <<"\t">> \o T_m1) THEN "M1"
    ELSE IF StartsWith(s, <<"\t">> \o T_m2) THEN "M2"
    ELSE "Invalid"

line_type(s) ==
    IF s = <<>> THEN "EmptyLine"
    ELSE IF StartsWith(s, P_name) THEN "Name"
    ELSE IF StartsWith(s, P_index) THEN "Index"
    ELSE IF StartsWith(s, P_lang) THEN "Lang"
    ELSE IF ~StartsWith(s, <<"\t">>) THEN "Key"
    ELSE IF Trim(s) \in Romans THEN "RomanNumber"
    ELSE IF ~StartsWith(s, <<"\t", "[">>) THEN "Text"
    ELSE IF StartsWith(s, <<"\t">> \o T_m1) THEN "M1"
    ELSE IF StartsWith(s, <<"\t">> \o T_m2) THEN "M2"
    ELSE IF Contains(s, T_com) THEN "Comment"
    ELSE "Invalid"

\* can_follow with the Comment row lacking Key and the Key row allowing M2.
can_follow_rows_swapped(p, curr) ==
    CASE p = "Begin" -> curr = "Name"
      [] p = "Name" -> curr = "Index"
      [] p = "Index" -> curr = "Lang"
      [] p = "Lang" -> curr = "EmptyLine"
      [] p = "EmptyLine" -> curr = "Key" \/ curr = "EmptyLine"
      [] p = "Key" -> curr = "Comment" \/ curr = "Text" \/ curr = "M1" \/ curr = "M2"
                        \/ curr = "RomanNumber"
      [] p = "Comment" -> curr = "Text" \/ curr = "M1" \/ curr = "Comment"
                            \/ curr = "RomanNumber"
      [] p \in {"Text", "M1", "M2"} ->
            curr = "Comment" \/ curr = "Key" \/ curr = "M1" \/ curr = "M2"
                \/ curr = "Text" \/ curr = "RomanNumber"
      [] p = "RomanNumber" -> curr = "Comment" \/ curr = "M1" \/ curr = "Text"
      [] OTHER -> FALSE

\* can_follow with a blank line allowed after a Text line.
can_follow_blank_after_text(p, curr) ==
    CASE p = "Begin" -> curr = "Name"
      [] p = "Name" -> curr = "Index"
      [] p = "Index" -> curr = "Lang"
      [] p = "Lang" -> curr = "EmptyLine"
      [] p = "EmptyLine" -> curr = "Key" \/ curr = "EmptyLine"
      [] p = "Key" -> curr = "Comment" \/ curr = "Text" \/ curr = "M1" \/ curr = "RomanNumber"
      [] p = "Comment" -> curr = "Text" \/ curr = "M1" \/ curr = "Comment"
                            \/ curr = "RomanNumber" \/ curr = "Key"
      [] p = "Text" -> curr = "Comment" \/ curr = "Key" \/ curr = "M1" \/ curr = "M2"
                         \/ curr = "Text" \/ curr = "RomanNumber" \/ curr = "EmptyLine"
      [] p = "M1" -> curr = "Comment" \/ curr = "Key" \/ curr = "M1" \/ curr = "M2"
                       \/ curr = "RomanNumber" \/ curr = "Text"
      [] p = "M2" -> curr = "Comment" \/ curr = "Key" \/ curr = "M1" \/ curr = "M2"
                       \/ curr = "RomanNumber" \/ curr = "Text"
      [] p = "RomanNumber" -> curr = "Comment" \/ curr = "M1" \/ curr = "Text"
      [] OTHER -> FALSE

\* can_follow with a body line refused after a body line of another role.
can_follow_same_body(p, curr) ==
    CASE p = "Begin" -> curr = "Name"
      [] p = "Name" -> curr = "Index"
      [] p = "Index" -> curr = "Lang"
      [] p = "Lang" -> curr = "EmptyLine"
      [] p = "EmptyLine" -> curr = "Key" \/ curr = "EmptyLine"
      [] p = "Key" -> curr = "Comment" \/ curr = "Text" \/ curr = "M1" \/ curr = "RomanNumber"
      [] p = "Comment" -> curr = "Comment" \/ curr = "Key"
      [] p \in {"Text", "M1", "M2"} -> curr = p \/ curr = "Key"
      [] p = "RomanNumber" -> curr = "Comment" \/ curr = "M1" \/ curr = "Text"
      [] OTHER -> FALSE

can_follow(p, curr) ==
    CASE p = "Begin" -> curr = "Name"
      [] p = "Name" -> curr = "Index"
      [] p = "Index" -> curr = "Lang"
      [] p = "Lang" -> curr = "EmptyLine"
      [] p = "EmptyLine" -> curr = "Key" \/ curr = "EmptyLine"
      [] p = "Key" -> curr = "Comment" \/ curr = "Text" \/ curr = "M1" \/ curr = "RomanNumber"
      [] p = "Comment" -> curr = "Text" \/ curr = "M1" \/ curr = "Comment"
                            \/ curr = "RomanNumber" \/ curr = "Key"
      [] p = "Text" -> curr = "Comment" \/ curr = "Key" \/ curr = "M1" \/ curr = "M2"
                         \/ curr = "Text" \/ curr = "RomanNumber"
      [] p = "M1" -> curr = "Comment" \/ curr = "Key" \/ curr = "M1" \/ curr = "M2"
                       \/ curr = "RomanNumber" \/ curr = "Text"
      [] p = "M2" -> curr = "Comment" \/ curr = "Key" \/ curr = "M1" \/ curr = "M2"
                       \/ curr = "RomanNumber" \/ curr = "Text"
      [] p = "RomanNumber" -> curr = "Comment" \/ curr = "M1" \/ curr = "Text"
      [] OTHER -> FALSE

----------------------------------------------------------------------------
(* parse_line: the inline tag scanner.  A scanner state is the record of   *)
(* its locals; done marks a return and ret is the returned string, as the  *)
(* sequence of the pieces of its format!.                                  *)

\* The texts of the diagnostics, up to their first argument, spelt as in the
\* source ("superfluos" is the source's spelling of superfluous).
Msg_opening_inside == "opening bracket inside tag: '"
Msg_orphan == "orphan closing bracket"
Msg_unknown == "unknown tag '"
Msg_superfluous == "superfluos closing tag '"
Msg_mismatch == "opening tag '"
Msg_unfinished == "unfinished tag '"
Msg_unclosed == "unclosed tags: "

\* The locals at the top of parse_line (lines 150-153).
ParseStart ==
    [in_sq |-> FALSE, tag |-> <<>>, stack |-> <<>>, last_c |-> " ",
     ret |-> <<>>, done |-> FALSE]

\* matched with [/m] closing M1 only.
matched_m1_only(tp, last) ==
    CASE tp = "MClose" -> last = "M1"
      [] tp = "IClose" -> last = "I"
      [] tp = "ComClose" -> last = "Comment"
      [] tp = "PClose" -> last = "P"
      [] tp = "CClose" -> last = "C"
      [] tp = "BClose" -> last = "B"
      [] tp = "ExClose" -> last = "Ex"
      [] tp = "LangIDClose" -> last = "LangID"
      [] OTHER -> FALSE

\* The match of a closing kind against the popped opener (lines 191-201).
matched(tp, last) ==
    CASE tp = "MClose" -> last = "M1" \/ last = "M2"
      [] tp = "IClose" -> last = "I"
      [] tp = "ComClose" -> last = "Comment"
      [] tp = "PClose" -> last = "P"
      [] tp = "CClose" -> last = "C"
      [] tp = "BClose" -> last = "B"
      [] tp = "ExClose" -> last = "Ex"
      [] tp = "LangIDClose" -> last = "LangID"
      [] OTHER -> FALSE

\* parse_open that restarts the token at a '[' inside a token, as
\* fix_up_line does, instead of returning.
parse_open_restart(st) ==
    IF st.last_c = "\\" THEN [st EXCEPT !.last_c = "["]
    ELSE [st EXCEPT !.tag = <<"[">>, !.in_sq = TRUE, !.last_c = "["]

\* The arm '[' (lines 156-166).
parse_open(st) ==
    IF st.last_c = "\\" THEN [st EXCEPT !.last_c = "["]
    ELSE IF st.in_sq
    THEN [st EXCEPT !.ret = <<Msg_opening_inside, st.tag, "['">>,
                    !.done = TRUE]
    ELSE [st EXCEPT !.tag = <<"[">>, !.in_sq = TRUE, !.last_c = "["]

\* parse_known that leaves the token in tag after a matched closing tag.
parse_known_keeps_tag(st, t, tp) ==
    IF ~StartsWith(t, <<"[", "/">>)
    THEN [st EXCEPT !.tag = t, !.in_sq = FALSE, !.stack = Append(st.stack, tp),
                    !.last_c = "]"]
    ELSE IF st.stack = <<>>
    THEN [st EXCEPT !.tag = t, !.in_sq = FALSE,
                    !.ret = <<Msg_superfluous, t, "'">>, !.done = TRUE]
    ELSE LET last == st.stack[Len(st.stack)]
             popped == SubSeq(st.stack, 1, Len(st.stack) - 1)
         IN  IF ~matched(tp, last)
             THEN [st EXCEPT !.tag = t, !.in_sq = FALSE, !.stack = popped,
                             !.ret = <<Msg_mismatch, last, "' closing '", tp, "'">>,
                             !.done = TRUE]
             ELSE [st EXCEPT !.tag = t, !.in_sq = FALSE, !.stack = popped,
                             !.last_c = "]"]

\* A completed token that is a known tag (lines 184-206).
parse_known(st, t, tp) ==
    IF ~StartsWith(t, <<"[", "/">>)
    THEN [st EXCEPT !.tag = t, !.in_sq = FALSE, !.stack = Append(st.stack, tp),
                    !.last_c = "]"]
    ELSE IF st.stack = <<>>
    THEN [st EXCEPT !.tag = t, !.in_sq = FALSE,
                    !.ret = <<Msg_superfluous, t, "'">>, !.done = TRUE]
    ELSE LET last == st.stack[Len(st.stack)]
             popped == SubSeq(st.stack, 1, Len(st.stack) - 1)
         IN  IF ~matched(tp, last)
             THEN [st EXCEPT !.tag = t, !.in_sq = FALSE, !.stack = popped,
                             !.ret = <<Msg_mismatch, last, "' closing '", tp, "'">>,
                             !.done = TRUE]
             ELSE [st EXCEPT !.tag = <<>>, !.in_sq = FALSE, !.stack = popped,
                             !.last_c = "]"]

\* The arm ']' (lines 167-207).
parse_close(st) ==
    IF st.last_c = "\\"
    THEN [st EXCEPT !.tag = IF st.in_sq THEN st.tag \o <<"]">> ELSE st.tag,
                    !.last_c = "]"]
    ELSE IF ~st.in_sq
    THEN [st EXCEPT !.ret = <<Msg_orphan>>, !.done = TRUE]
    ELSE LET t == st.tag \o <<"]">>
             tp == tag_type(t)
         IN  IF tp = "Invalid"
             THEN [st EXCEPT !.tag = t, !.in_sq = FALSE,
                             !.ret = <<Msg_unknown, t, "'">>, !.done = TRUE]
             ELSE parse_known(st, t, tp)

\* The arm _ (lines 208-210).
parse_other(st, c) ==
    [st EXCEPT !.tag = IF st.in_sq THEN st.tag \o <<c>> ELSE st.tag, !.last_c = c]

\* One iteration of the loop over the characters (lines 154-213).
parse_char(st, c) ==
    IF c = "[" THEN parse_open(st)
    ELSE IF c = "]" THEN parse_close(st)
    ELSE parse_other(st, c)

\* parse_end without the test of the stack.
parse_end_ignores_stack(st) ==
    IF st.tag # <<>>
    THEN [st EXCEPT !.ret = <<Msg_unfinished, st.tag, "'">>, !.done = TRUE]
    ELSE [st EXCEPT !.ret = <<>>, !.done = TRUE]

\* After the loop (lines 214-220).
parse_end(st) ==
    IF st.tag # <<>>
    THEN [st EXCEPT !.ret = <<Msg_unfinished, st.tag, "'">>, !.done = TRUE]
    ELSE IF st.stack # <<>>
    THEN [st EXCEPT !.ret = <<Msg_unclosed, st.stack>>, !.done = TRUE]
    ELSE [st EXCEPT !.ret = <<>>, !.done = TRUE]

RECURSIVE parse_from(_, _, _)
parse_from(st, s, i) ==
    IF st.done THEN st
    ELSE IF i > Len(s) THEN parse_end(st)
    ELSE parse_from(parse_char(st, s[i]), s, i + 1)

\* parse_line as a function: the string it returns (<<>> when there is no error).
parse_line(s) == parse_from(ParseStart, Trim(s), 1).ret

----------------------------------------------------------------------------
(* fix_up_line: the repair engine.  log holds what it prints.              *)

\* The locals at the top of fix_up_line (lines 256-259).
FixStart ==
    [in_sq |-> FALSE, tag |-> <<>>, last_c |-> " ", res |-> <<>>, log |-> <<>>]

\* The arm '[' (lines 262-270).
fix_open(st) ==
    IF st.last_c = "\\"
    THEN [st EXCEPT !.last_c = "[", !.res = st.res \o <<"[">>]
    ELSE [st EXCEPT !.tag = <<"[">>, !.in_sq = TRUE, !.last_c = "["]

\* escaped_tag without the backslash before the closing bracket.
\* escaped_tag that returns the token as it is.
escaped_tag_verbatim(t) == t

escaped_tag_open_only(t) == <<"\\">> \o TrimEndBrackets(t) \o <<"]">>

\* The replacement of an unknown token (lines 290-291).
escaped_tag(t) == <<"\\">> \o TrimEndBrackets(t) \o <<"\\", "]">>

\* The arm ']' (lines 271-298).
fix_close(st) ==
    IF st.last_c = "\\"
    THEN [st EXCEPT !.tag = IF st.in_sq THEN st.tag \o <<"]">> ELSE st.tag,
                    !.res = IF st.in_sq THEN st.res ELSE st.res \o <<"]">>,
                    !.last_c = "]"]
    ELSE IF ~st.in_sq
    THEN [st EXCEPT !.res = st.res \o <<"\\", "]">>]
    ELSE LET t == st.tag \o <<"]">>
         IN  IF tag_type(t) = "Invalid"
             THEN [st EXCEPT !.tag = <<>>, !.in_sq = FALSE, !.last_c = "]",
                             !.res = st.res \o escaped_tag(t),
                             !.log = Append(st.log,
                                 <<"replacing '", t, "' with '", escaped_tag(t), "'">>)]
             ELSE [st EXCEPT !.tag = <<>>, !.in_sq = FALSE, !.last_c = "]",
                             !.res = st.res \o t]

\* The arm _ (lines 299-303).
fix_other(st, c) ==
    IF st.in_sq
    THEN [st EXCEPT !.tag = st.tag \o <<c>>, !.last_c = c]
    ELSE [st EXCEPT !.res = st.res \o <<c>>, !.last_c = c]

\* One iteration of the loop over the characters (lines 260-306).
fix_char(st, c) ==
    IF c = "[" THEN fix_open(st)
    ELSE IF c = "]" THEN fix_close(st)
    ELSE fix_other(st, c)

\* After the loop (lines 307-310).
fix_end(st) ==
    IF st.tag # <<>> THEN [st EXCEPT !.res = st.res \o st.tag] ELSE st

RECURSIVE fix_from(_, _, _)
fix_from(st, s, i) ==
    IF i > Len(s) THEN fix_end(st) ELSE fix_from(fix_char(st, s[i]), s, i + 1)

\* fix_up_line as a function: the string it returns.
fix_up_line(s) == fix_from(FixStart, s, 1).res

----------------------------------------------------------------------------
(* The inputs.                                                             *)

\* The sequences of at most n elements of S.
SeqsUpTo(S, n) == UNION { [1..k -> S] : k \in 0..n }

RECURSIVE Concat(_)
Concat(ps) == IF ps = <<>> THEN <<>> ELSE Head(ps) \o Concat(Tail(ps))

\* One document line of every role line_type tells apart; two headwords that
\* differ in trailing whitespace only; a text line with an orphan bracket.
L_name == P_name \o <<"x">>
L_index == P_index \o <<"x">>
L_lang == P_lang \o <<"x">>
L_empty == <<>>
L_key == <<"a">>
L_key_sp == <<"a", " ">>
L_roman == <<"\t", "I", "I">>
L_text == <<"\t", "x">>
L_m1 == <<"\t">> \o T_m1 \o <<"x">> \o T_m_close
L_m2 == <<"\t">> \o T_m2 \o <<"x">> \o T_m_close
L_com == <<"\t">> \o T_com \o <<"x">> \o T_com_close
L_inv == <<"\t">> \o T_b \o <<"x">> \o T_b_close
L_bad == <<"\t", "x", "]">>

DocLines ==
    { L_name, L_index, L_lang, L_empty, L_key, L_key_sp, L_roman, L_text,
      L_m1, L_m2, L_com, L_inv, L_bad }

\* A document is a head (nothing, the header block with its blank line, or
\* that and a first entry) followed by at most MaxTail lines.
Heads ==
    { <<>>,
      <<L_name, L_index, L_lang, L_empty>>,
      <<L_name, L_index, L_lang, L_empty, L_key, L_text>> }

Docs == { h \o t : h \in Heads, t \in SeqsUpTo(DocLines, MaxTail) }

\* The lines given to parse_line and fix_up_line: raw lines over brackets,
\* backslashes, a letter, a known tag and the prefix of the language tag;
\* tagged lines over every tag of the vocabulary; nested lines over two
\* pairs, an unknown tag and a letter.
RawPieces == { <<"[">>, <<"]">>, <<"\\">>, <<"x">>, T_b, T_lang_id }

TagPieces ==
    { T_com, T_com_close, T_m1, T_m2, T_m_close, T_p, T_p_close, T_i, T_i_close,
      T_ex, T_ex_close, T_c, T_c_close, T_b, T_b_close,
      T_lang_id \o <<"x", "]">>, T_lang_close,
      <<"[", "x", "]">>, <<"x">>, <<"\t">> }

NestPieces == { T_b, T_b_close, T_i, T_i_close, <<"[", "x", "]">>, <<"x">> }

Lines ==
    { Concat(ps) : ps \in SeqsUpTo(RawPieces, MaxRaw) }
        \cup { Concat(ps) : ps \in SeqsUpTo(TagPieces, MaxTags) }
        \cup { Concat(ps) : ps \in SeqsUpTo(NestPieces, MaxNest) }

----------------------------------------------------------------------------
(* check_grammar: one action per iteration of its loop over the lines.     *)

\* key_insert without the test of exist: a repeated headword overwrites its entry.
key_insert_overwrite(w, l, i) ==
    [k \in DOMAIN w \cup {l} |-> IF k = l THEN i ELSE w[k]]

\* Lines 235-242: a headword is inserted unless it is already a key.
key_insert(w, l, i) ==
    IF l \in DOMAIN w THEN w
    ELSE [k \in DOMAIN w \cup {l} |-> IF k = l THEN i ELSE w[k]]

\* prev_after that stays at the last role reached by a legal transition.
prev_after_legal_only(p, tp) == IF can_follow(p, tp) THEN tp ELSE p

\* Line 251: the validator's state after a line of role tp, whatever was printed.
prev_after(p, tp) == tp

\* Lines 230-250: what one iteration prints, in order.  {:4} pads the index.
check_prints(w, p, l, i) ==
    LET tp == line_type(l)
        prs == parse_line(l)
    IN  (IF tp = "Invalid" THEN << <<i, ".", l>> >> ELSE <<>>)
        \o (IF tp = "Key" /\ l \in DOMAIN w
            THEN << <<l, " at ", i, " already exists at ", w[l]>> >> ELSE <<>>)
        \o (IF ~can_follow(p, tp)
            THEN << <<i, ".PREV ", p, ", CURR: ", tp, l>> >> ELSE <<>>)
        \o (IF prs # <<>> THEN << <<i, ".", prs, " ==> ", l>> >> ELSE <<>>)

InitCheck ==
    /\ cmd = "check"
    /\ pc = "loop"
    /\ cont \in Docs
    /\ idx = 0
    /\ prev = "Begin"
    /\ words = [k \in {} |-> 0]
    /\ out = <<>>
    /\ rvec = <<>> /\ outf = <<>>
    /\ line = <<>> /\ pos = 0 /\ in_sq = FALSE /\ tag = <<>> /\ stack = <<>>
    /\ last_c = " " /\ res = <<>> /\ ret = <<>>

CheckLine ==
    /\ cmd = "check" /\ pc = "loop"
    /\ idx < Len(cont)
    /\ LET l == cont[idx + 1]
           tp == line_type(l)
       IN  /\ out' = out \o check_prints(words, prev, l, idx)
           /\ words' = IF tp = "Key" THEN key_insert(words, l, idx) ELSE words
           /\ prev' = prev_after(prev, tp)
    /\ idx' = idx + 1
    /\ UNCHANGED <<cmd, pc, cont, rvec, outf, lineVars>>

CheckEnd ==
    /\ cmd = "check" /\ pc = "loop"
    /\ idx = Len(cont)
    /\ pc' = "done"
    /\ UNCHANGED <<cmd, docVars, lineVars>>

NextCheck == CheckLine \/ CheckEnd

Spec == InitCheck /\ [][NextCheck]_vars

----------------------------------------------------------------------------
(* parse_line on one line: one action per arm of its match, one for the    *)
(* code after the loop.                                                    *)

PSt ==
    [in_sq |-> in_sq, tag |-> tag, stack |-> stack, last_c |-> last_c,
     ret |-> ret, done |-> pc = "done"]

PSet(n) ==
    /\ in_sq' = n.in_sq /\ tag' = n.tag /\ stack' = n.stack /\ last_c' = n.last_c
    /\ ret' = n.ret
    /\ pc' = IF n.done THEN "done" ELSE "scan"

\* The character the loop is at ("" past the end); parse_line scans s.trim().
ScanChar == IF pos < Len(Trim(line)) THEN Trim(line)[pos + 1] ELSE ""

InitParse ==
    /\ cmd = "parse_line"
    /\ pc = "scan"
    /\ line \in Lines
    /\ pos = 0
    /\ in_sq = ParseStart.in_sq /\ tag = ParseStart.tag /\ stack = ParseStart.stack
    /\ last_c = ParseStart.last_c /\ ret = ParseStart.ret
    /\ res = <<>>
    /\ cont = <<>> /\ idx = 0 /\ prev = "Begin" /\ words = [k \in {} |-> 0] /\ out = <<>>
    /\ rvec = <<>> /\ outf = <<>>

ScanOpen ==
    /\ cmd = "parse_line" /\ pc = "scan"
    /\ pos < Len(Trim(line)) /\ Trim(line)[pos + 1] = "["
    /\ PSet(parse_open(PSt))
    /\ pos' = pos + 1
    /\ UNCHANGED <<cmd, line, res, docVars>>

ScanClose ==
    /\ cmd = "parse_line" /\ pc = "scan"
    /\ pos < Len(Trim(line)) /\ Trim(line)[pos + 1] = "]"
    /\ PSet(parse_close(PSt))
    /\ pos' = pos + 1
    /\ UNCHANGED <<cmd, line, res, docVars>>

ScanOther ==
    /\ cmd = "parse_line" /\ pc = "scan"
    /\ pos < Len(Trim(line)) /\ Trim(line)[pos + 1] \notin {"[", "]"}
    /\ PSet(parse_other(PSt, Trim(line)[pos + 1]))
    /\ pos' = pos + 1
    /\ UNCHANGED <<cmd, line, res, docVars>>

ScanEnd ==
    /\ cmd = "parse_line" /\ pc = "scan"
    /\ pos = Len(Trim(line))
    /\ PSet(parse_end(PSt))
    /\ UNCHANGED <<cmd, line, pos, res, docVars>>

NextParse == ScanOpen \/ ScanClose \/ ScanOther \/ ScanEnd

SpecParse == InitParse /\ [][NextParse]_vars

----------------------------------------------------------------------------
(* fix_up_line on one line, likewise.  out holds what it prints.           *)

FSt == [in_sq |-> in_sq, tag |-> tag, last_c |-> last_c, res |-> res, log |-> out]

FSet(n) ==
    /\ in_sq' = n.in_sq /\ tag' = n.tag /\ last_c' = n.last_c /\ res' = n.res
    /\ out' = n.log

InitFix ==
    /\ cmd = "fix_up_line"
    /\ pc = "scan"
    /\ line \in Lines
    /\ pos = 0
    /\ in_sq = FixStart.in_sq /\ tag = FixStart.tag /\ last_c = FixStart.last_c
    /\ res = FixStart.res /\ out = FixStart.log
    /\ stack = <<>> /\ ret = <<>>
    /\ cont = <<>> /\ idx = 0 /\ prev = "Begin" /\ words = [k \in {} |-> 0]
    /\ rvec = <<>> /\ outf = <<>>

FixOpen ==
    /\ cmd = "fix_up_line" /\ pc = "scan"
    /\ pos < Len(line) /\ line[pos + 1] = "["
    /\ FSet(fix_open(FSt))
    /\ pos' = pos + 1
    /\ UNCHANGED <<cmd, pc, line, stack, ret, cont, idx, prev, words, rvec, outf>>

FixClose ==
    /\ cmd = "fix_up_line" /\ pc = "scan"
    /\ pos < Len(line) /\ line[pos + 1] = "]"
    /\ FSet(fix_close(FSt))
    /\ pos' = pos + 1
    /\ UNCHANGED <<cmd, pc, line, stack, ret, cont, idx, prev, words, rvec, outf>>

FixOther ==
    /\ cmd = "fix_up_line" /\ pc = "scan"
    /\ pos < Len(line) /\ line[pos + 1] \notin {"[", "]"}
    /\ FSet(fix_other(FSt, line[pos + 1]))
    /\ pos' = pos + 1
    /\ UNCHANGED <<cmd, pc, line, stack, ret, cont, idx, prev, words, rvec, outf>>

FixEnd ==
    /\ cmd = "fix_up_line" /\ pc = "scan"
    /\ pos = Len(line)
    /\ FSet(fix_end(FSt))
    /\ pc' = "done"
    /\ UNCHANGED <<cmd, line, pos, stack, ret, cont, idx, prev, words, rvec, outf>>

NextFix == FixOpen \/ FixClose \/ FixOther \/ FixEnd

SpecFix == InitFix /\ [][NextFix]_vars

----------------------------------------------------------------------------
(* fix_invalid_tags: one action per iteration of its loop over the lines,  *)
(* one for the loop that writes the output file.                           *)

\* Lines of a document given to fix-tags.
MaxFixDoc == 3

\* Lines without an opening bracket (a letter, an orphan closing bracket,
\* an escaped closing bracket, nothing) and lines with one.
FixTagLines ==
    { <<>>, <<"x">>, <<"x", "]">>, <<"\\", "]">>, <<"\\", "[">>, <<"[", "x">>,
      <<"[", "x", "]">>, T_b \o <<"x">> \o T_b_close }

FixDocs == SeqsUpTo(FixTagLines, MaxFixDoc)

\* fix_tags_line without the test for '[': every line goes through fix_up_line.
fix_tags_line_always(l) == fix_up_line(l)

\* Lines 319-324: the line pushed to rvec for the input line l.
fix_tags_line(l) == IF ~Contains(l, <<"[">>) THEN l ELSE fix_up_line(l)

InitFixTags ==
    /\ cmd = "fix-tags"
    /\ pc = "loop"
    /\ cont \in FixDocs
    /\ idx = 0
    /\ rvec = <<>> /\ outf = <<>>
    /\ out = <<>>
    /\ prev = "Begin" /\ words = [k \in {} |-> 0]
    /\ line = <<>> /\ pos = 0 /\ in_sq = FALSE /\ tag = <<>> /\ stack = <<>>
    /\ last_c = " " /\ res = <<>> /\ ret = <<>>

FixTagsLine ==
    /\ cmd = "fix-tags" /\ pc = "loop"
    /\ idx < Len(cont)
    /\ LET l == cont[idx + 1]
       IN  /\ rvec' = Append(rvec, fix_tags_line(l))
           /\ out' = IF Contains(l, <<"[">>)
                     THEN out \o fix_from(FixStart, l, 1).log ELSE out
    /\ idx' = idx + 1
    /\ UNCHANGED <<cmd, pc, cont, prev, words, outf, lineVars>>

\* Lines 327-330: writeln! of every element of rvec, in order.
FixTagsWrite ==
    /\ cmd = "fix-tags" /\ pc = "loop"
    /\ idx = Len(cont)
    /\ outf' = rvec
    /\ pc' = "done"
    /\ UNCHANGED <<cmd, cont, idx, prev, words, out, rvec, lineVars>>

NextFixTags == FixTagsLine \/ FixTagsWrite

SpecFixTags == InitFixTags /\ [][NextFixTags]_vars

----------------------------------------------------------------------------
(* line_type on one line.  prev holds the role it returns.                 *)

\* Pieces of a line given to line_type.
MaxClass == 3

ClassPieces ==
    { <<"\t">>, <<" ">>, <<"x">>, <<"I">>, <<"V">>, <<"X">>, <<"[">>,
      T_m1, T_m2, T_com, T_b, P_name, P_index, P_lang }

ClassLines == { Concat(ps) : ps \in SeqsUpTo(ClassPieces, MaxClass) }

InitClassify ==
    /\ cmd = "line_type"
    /\ pc = "scan"
    /\ line \in ClassLines
    /\ prev = "Begin"
    /\ pos = 0 /\ in_sq = FALSE /\ tag = <<>> /\ stack = <<>>
    /\ last_c = " " /\ res = <<>> /\ ret = <<>>
    /\ cont = <<>> /\ idx = 0 /\ words = [k \in {} |-> 0] /\ out = <<>>
    /\ rvec = <<>> /\ outf = <<>>

Classify ==
    /\ cmd = "line_type" /\ pc = "scan"
    /\ prev' = line_type(line)
    /\ pc' = "done"
    /\ UNCHANGED <<cmd, cont, idx, words, out, rvec, outf, lineVars>>

NextClassify == Classify

SpecClassify == InitClassify /\ [][NextClassify]_vars

----------------------------------------------------------------------------
(* The claims about check_grammar.                                         *)

\* The role of line i (from 0) of the document, and the role before it.
RoleAt(i) == line_type(cont[i + 1])
RoleBefore(i) == IF i = 0 THEN "Begin" ELSE RoleAt(i - 1)

\* What check_grammar printed: a sequence diagnostic for line i, a duplicate
\* diagnostic for line i citing line j.
SeqDiagAt(i) ==
    \E k \in 1..Len(out) :
        /\ Len(out[k]) = 6 /\ out[k][2] = ".PREV "
        /\ out[k][1] = i /\ out[k][3] = RoleBefore(i) /\ out[k][5] = RoleAt(i)
DupDiagAt(i, j) ==
    \E k \in 1..Len(out) :
        /\ Len(out[k]) = 5 /\ out[k][2] = " at "
        /\ out[k][3] = i /\ out[k][5] = j /\ out[k][1] = cont[i + 1]
NoSeqDiag == \A k \in 1..Len(out) : ~(Len(out[k]) = 6 /\ out[k][2] = ".PREV ")

\* The transitions the specification lists, in the names of DState
\* (NameHeader is Name, IndexLanguageHeader is Index, ContentsLanguageHeader
\* is Lang, BlankLine is EmptyLine, Headword is Key, CommentLine is Comment,
\* PlainText is Text, MarkerOne is M1, MarkerTwo is M2, SenseNumber is
\* RomanNumber, Unrecognized is Invalid).
ListedTransitions ==
    { <<"Begin", "Name">>, <<"Name", "Index">>, <<"Index", "Lang">>, <<"Lang", "EmptyLine">> }
        \cup ({"EmptyLine"} \X {"Key", "EmptyLine"})
        \cup ({"Key"} \X {"Comment", "Text", "M1", "RomanNumber"})
        \cup ({"Comment"} \X {"Text", "M1", "Comment", "RomanNumber", "Key"})
        \cup ({"Text", "M1", "M2"} \X {"Comment", "Key", "M1", "M2", "Text", "RomanNumber"})
        \cup ({"RomanNumber"} \X {"Comment", "M1", "Text"})

\* C1: check_grammar prints a sequence diagnostic at line i, naming the role
\* before it and its own, exactly when that pair is not a listed transition.
C1_SequenceDiagnostics ==
    \A i \in 0..(idx - 1) :
        SeqDiagAt(i) <=> <<RoleBefore(i), RoleAt(i)>> \notin ListedTransitions

\* A run that met a legal Comment -> Key, and an Unrecognized line as source.
C1_Witness ==
    /\ pc = "done"
    /\ \E i \in 0..(idx - 1) :
          RoleBefore(i) = "Comment" /\ RoleAt(i) = "Key" /\ ~SeqDiagAt(i)
    /\ \E i \in 0..(idx - 1) : RoleBefore(i) = "Invalid" /\ SeqDiagAt(i)

\* A well-formed document: the three headers, one or more blank lines, then
\* entries, each a Headword line followed by one or more body lines.
BodyRoles == {"Comment", "Text", "M1", "M2", "RomanNumber"}
WellFormed(d) ==
    LET r(i) == line_type(d[i])
    IN  /\ Len(d) >= 6
        /\ r(1) = "Name" /\ r(2) = "Index" /\ r(3) = "Lang"
        /\ \E b \in 4..(Len(d) - 2) :
              /\ \A i \in 4..b : r(i) = "EmptyLine"
              /\ r(b + 1) = "Key"
              /\ \A i \in (b + 1)..Len(d) :
                    /\ r(i) \in BodyRoles \cup {"Key"}
                    /\ r(i) = "Key" => i < Len(d) /\ r(i + 1) \in BodyRoles

\* The orders of body lines the validator refuses: a MarkerTwo line directly
\* after a Headword, CommentLine or SenseNumber line; a SenseNumber or a
\* Headword line directly after a SenseNumber line.
RefusedBodyOrder(d) ==
    \E i \in 1..(Len(d) - 1) :
        \/ line_type(d[i]) \in {"Key", "Comment", "RomanNumber"} /\ line_type(d[i + 1]) = "M2"
        \/ line_type(d[i]) = "RomanNumber" /\ line_type(d[i + 1]) \in {"RomanNumber", "Key"}

\* C2 as stated: a well-formed document yields no sequence diagnostic over
\* the whole run.
C2_WellFormedAsStated == pc = "done" /\ WellFormed(cont) => NoSeqDiag

\* C2 as amended: a well-formed document none of whose body lines stand in
\* a refused order yields no sequence diagnostic over the whole run.
C2_WellFormedClean ==
    pc = "done" /\ WellFormed(cont) /\ ~RefusedBodyOrder(cont) => NoSeqDiag

\* A finished run over a well-formed document of two entries, one with a
\* MarkerTwo line.
C2_Witness ==
    /\ pc = "done" /\ WellFormed(cont) /\ ~RefusedBodyOrder(cont)
    /\ Cardinality({i \in 1..Len(cont) : line_type(cont[i]) = "Key"}) >= 2
    /\ \E i \in 1..Len(cont) : line_type(cont[i]) = "M2"

\* The lines (from 0) among the first idx that are headwords.
HeadwordsSeen == { i \in 0..(idx - 1) : RoleAt(i) = "Key" }
FirstSeen(l) == CHOOSE i \in HeadwordsSeen :
                    cont[i + 1] = l /\ \A j \in HeadwordsSeen : cont[j + 1] = l => i <= j

\* C9: after any prefix, the KeyIndex holds exactly the headword texts seen,
\* each with the line number of its first occurrence, and a headword line
\* has a duplicate diagnostic, citing its line and the first line, exactly
\* when its text was seen before; so no entry is overwritten or removed.
C9_KeyIndexFirstOccurrence ==
    /\ DOMAIN words = { cont[i + 1] : i \in HeadwordsSeen }
    /\ \A l \in DOMAIN words : words[l] = FirstSeen(l)
    /\ \A i \in HeadwordsSeen :
          /\ FirstSeen(cont[i + 1]) < i => DupDiagAt(i, FirstSeen(cont[i + 1]))
          /\ FirstSeen(cont[i + 1]) = i => \A j \in 0..idx : ~DupDiagAt(i, j)

\* A run that met one headword three times and another in between.
C9_Witness ==
    /\ pc = "done"
    /\ \E i, j, k \in HeadwordsSeen :
          /\ i < j /\ j < k /\ cont[i + 1] = cont[j + 1] /\ cont[j + 1] = cont[k + 1]
          /\ DupDiagAt(k, i)
    /\ Cardinality(DOMAIN words) >= 2

----------------------------------------------------------------------------
(* The vocabulary and the bracket tokens of a line, as the specification   *)
(* describes them (sections 3, 4.1 and 4.4), for the claims about lines.   *)

OpenTags == {T_com, T_m1, T_m2, T_p, T_i, T_ex, T_c, T_b}
CloseTags == {T_com_close, T_m_close, T_p_close, T_i_close, T_ex_close, T_c_close,
              T_b_close, T_lang_close}
IsLangTag(t) == StartsWith(t, T_lang_id)
IsOpenTag(t) == t \in OpenTags \/ IsLangTag(t)
IsKnownTag(t) == IsOpenTag(t) \/ t \in CloseTags

\* Whether closing tag c closes opening tag o: [/m] closes [m1] and [m2],
\* [/lang] closes a language span, every other closer its own opener.
Closes(o, c) ==
    \/ c = T_m_close /\ o \in {T_m1, T_m2}
    \/ c = T_lang_close /\ IsLangTag(o)
    \/ <<o, c>> \in { <<T_com, T_com_close>>, <<T_p, T_p_close>>, <<T_i, T_i_close>>,
                      <<T_ex, T_ex_close>>, <<T_c, T_c_close>>, <<T_b, T_b_close>> }

\* A bracket is escaped when the character before it is a backslash.
Escaped(s, i) == i > 1 /\ s[i - 1] = "\\"

\* The bracket tokens of s, left to right: a token runs from an unescaped
\* '[' to the next unescaped ']'.  ok is FALSE when an unescaped '[' stands
\* inside a token, an unescaped ']' outside one, or the last token is not
\* closed.  cur is the token being read (<<>> outside a token).
RECURSIVE TokensFrom(_, _, _, _)
TokensFrom(s, i, cur, toks) ==
    IF i > Len(s) THEN [ok |-> cur = <<>>, toks |-> toks]
    ELSE IF s[i] = "[" /\ ~Escaped(s, i)
    THEN IF cur # <<>> THEN [ok |-> FALSE, toks |-> toks]
         ELSE TokensFrom(s, i + 1, <<"[">>, toks)
    ELSE IF s[i] = "]" /\ ~Escaped(s, i)
    THEN IF cur = <<>> THEN [ok |-> FALSE, toks |-> toks]
         ELSE TokensFrom(s, i + 1, <<>>, Append(toks, cur \o <<"]">>))
    ELSE TokensFrom(s, i + 1, IF cur # <<>> THEN cur \o <<s[i]>> ELSE cur, toks)

Tokens(s) == TokensFrom(s, 1, <<>>, <<>>)

\* Whether the tags toks, read after the opening tags open, are balanced
\* and correctly nested.
RECURSIVE Nested(_, _)
Nested(toks, open) ==
    IF toks = <<>> THEN open = <<>>
    ELSE IF IsOpenTag(Head(toks)) THEN Nested(Tail(toks), Append(open, Head(toks)))
    ELSE /\ open # <<>>
         /\ Closes(open[Len(open)], Head(toks))
         /\ Nested(Tail(toks), SubSeq(open, 1, Len(open) - 1))

AllKnown(s) == Tokens(s).ok /\ \A k \in 1..Len(Tokens(s).toks) : IsKnownTag(Tokens(s).toks[k])
BalancedKnown(s) == AllKnown(s) /\ Nested(Tokens(s).toks, <<>>)

----------------------------------------------------------------------------
(* The claims about parse_line.                                            *)

\* C3: on a line whose bracket tokens are all known tags, balanced and
\* correctly nested, parse_line returns the empty string.
C3_BalancedLineIsClean == pc = "done" /\ BalancedKnown(line) => ret = <<>>

\* A scanned line that nests a pair inside another pair.
C3_Witness ==
    /\ cmd = "parse_line" /\ pc = "done" /\ BalancedKnown(line)
    /\ Len(Tokens(line).toks) = 4
    /\ IsOpenTag(Tokens(line).toks[2])
    /\ Tokens(line).toks[1] # Tokens(line).toks[2]

\* The Debug names of the tags.
KindName(t) ==
    IF IsLangTag(t) THEN "LangID"
    ELSE CASE t = T_com -> "Comment" [] t = T_m1 -> "M1" [] t = T_m2 -> "M2"
           [] t = T_p -> "P" [] t = T_i -> "I" [] t = T_ex -> "Ex" [] t = T_c -> "C"
           [] t = T_b -> "B" [] t = T_com_close -> "ComClose" [] t = T_m_close -> "MClose"
           [] t = T_p_close -> "PClose" [] t = T_i_close -> "IClose"
           [] t = T_ex_close -> "ExClose" [] t = T_c_close -> "CClose"
           [] t = T_b_close -> "BClose" [] t = T_lang_close -> "LangIDClose"

\* The scanner is at an unescaped ']' that completes the closing tag t while
\* the TagStack is not empty.
ClosingTagMet(t) ==
    /\ cmd = "parse_line" /\ pc = "scan" /\ ScanChar = "]" /\ last_c # "\\" /\ in_sq
    /\ t = tag \o <<"]">> /\ t \in CloseTags /\ stack # <<>>

\* C7: a closing tag met with a non-empty TagStack pops the top; the scan
\* goes on when the closer closes the popped opener, and otherwise returns
\* the mismatch diagnostic naming the popped opener and the closer.
C7_CloserMatchesPopped ==
    [][\A t \in CloseTags :
          ClosingTagMet(t) =>
              LET top == stack[Len(stack)]
              IN  /\ stack' = SubSeq(stack, 1, Len(stack) - 1)
                  /\ IF \E o \in OpenTags \cup {T_lang_id \o <<"x", "]">>} :
                            KindName(o) = top /\ Closes(o, t)
                     THEN pc' = "scan" /\ ret' = <<>>
                     ELSE pc' = "done"
                          /\ ret' = <<"opening tag '", top, "' closing '", KindName(t), "'">>]_vars

\* [b]...[/i] returned opening tag 'B' closing 'IClose'.
C7_Witness ==
    /\ cmd = "parse_line" /\ pc = "done" /\ Len(ret) = 5
    /\ ret[1] = "opening tag '" /\ ret[2] = "B" /\ ret[4] = "IClose"
    /\ StartsWith(Trim(line), T_b)

\* parse_line returned from the code after its loop.
AtEndOfLine ==
    /\ cmd = "parse_line" /\ pc = "done"
    /\ ret = <<>> \/ ret[1] \in {Msg_unfinished, Msg_unclosed}

\* C8 as stated: at end of line, "unfinished tag" is returned exactly when
\* the line ends inside a token, and "unclosed tags" exactly when it does
\* not and the TagStack is not empty.
C8_EndOfLineDiagnostics ==
    AtEndOfLine =>
        /\ (ret # <<>> /\ ret[1] = Msg_unfinished) <=> in_sq
        /\ (ret # <<>> /\ ret[1] = Msg_unclosed) <=> (~in_sq /\ stack # <<>>)

\* The scanner is at character c of offence kind k.
Offence(k) ==
    /\ cmd = "parse_line" /\ pc = "scan"
    /\ \/ k = "opening bracket inside tag" /\ ScanChar = "[" /\ last_c # "\\" /\ in_sq
       \/ k = "orphan closing bracket" /\ ScanChar = "]" /\ last_c # "\\" /\ ~in_sq
       \/ k = "unknown tag" /\ ScanChar = "]" /\ last_c # "\\" /\ in_sq
             /\ ~IsKnownTag(tag \o <<"]">>)
       \/ k = "superfluous closing tag" /\ ScanChar = "]" /\ last_c # "\\" /\ in_sq
             /\ tag \o <<"]">> \in CloseTags /\ stack = <<>>

\* The diagnostic of offence kind k met with the token so far t.
OffenceDiagnostic(k, t) ==
    CASE k = "opening bracket inside tag" -> <<Msg_opening_inside, t, "['">>
      [] k = "orphan closing bracket" -> <<Msg_orphan>>
      [] k = "unknown tag" -> <<Msg_unknown, t \o <<"]">>, "'">>
      [] k = "superfluous closing tag" -> <<Msg_superfluous, t \o <<"]">>, "'">>

OffenceKinds ==
    {"opening bracket inside tag", "orphan closing bracket", "unknown tag",
     "superfluous closing tag"}

\* parse_line returned from inside its loop, at the character it had reached.
ReturnedInLoop ==
    /\ cmd = "parse_line" /\ pc = "done"
    /\ ret # <<>> /\ ret[1] \notin {Msg_unfinished, Msg_unclosed}

\* C10: the scanner returns at the first offending character with that
\* character's diagnostic, a character that is no offence never returns
\* one of these diagnostics, a returned diagnostic never changes, and the
\* line cut after the offending character gives the same result.
C10_FirstErrorWins ==
    /\ [][\A k \in OffenceKinds :
            /\ Offence(k) => pc' = "done" /\ ret' = OffenceDiagnostic(k, tag)
            /\ (pc = "scan" /\ pc' = "done" /\ ret' # <<>> /\ ret'[1] = OffenceDiagnostic(k, tag)[1])
                  => Offence(k)]_vars
    /\ [][pc = "done" => UNCHANGED vars]_vars
    /\ [](ReturnedInLoop => parse_line(SubSeq(Trim(line), 1, pos)) = ret)

\* A line with an unknown tag first and an orphan bracket after it returned
\* the unknown-tag diagnostic.
C10_Witness ==
    /\ ReturnedInLoop /\ ret[1] = Msg_unknown
    /\ pos < Len(Trim(line)) /\ Trim(line)[Len(Trim(line))] = "]"
    /\ ~Tokens(SubSeq(Trim(line), pos + 1, Len(Trim(line)))).ok

----------------------------------------------------------------------------
(* The claims about fix_up_line.                                           *)

FixDone == cmd = "fix_up_line" /\ pc = "done"

\* C4 as stated: the repair engine run on its own output returns it
\* unchanged.
C4_Idempotent == FixDone => fix_up_line(res) = res

\* C5 as stated: a line whose bracket tokens are all recognized tags,
\* balanced or not, is returned unchanged.
C5_RecognizedRoundTrip == FixDone /\ AllKnown(line) => res = line

\* The line is text, one bracket token [t] with t free of brackets and
\* backslashes that is no known tag, and text; i and j are the places of
\* its brackets and the texts hold no bracket.
UnknownTokenAt(s, i, j) ==
    /\ i < j /\ s[i] = "[" /\ s[j] = "]" /\ ~Escaped(s, i)
    /\ \A k \in 1..Len(s) : s[k] \in {"[", "]"} => k \in {i, j}
    /\ \A k \in i..j : s[k] # "\\"
    /\ ~IsKnownTag(SubSeq(s, i, j))

\* C6: the unknown token [t] is replaced by \[t\], the text before and
\* after it is emitted unchanged, the replacement is logged, and the
\* scanner reports unknown tag '[t]' for the line.
C6_UnknownTokenEscaped ==
    FixDone =>
        \A i, j \in 1..Len(line) :
            UnknownTokenAt(line, i, j) =>
                LET before == SubSeq(line, 1, i - 1)
                    inner == SubSeq(line, i + 1, j - 1)
                    after == SubSeq(line, j + 1, Len(line))
                    token == SubSeq(line, i, j)
                    escaped == <<"\\", "[">> \o inner \o <<"\\", "]">>
                IN  /\ res = before \o escaped \o after
                    /\ out = << <<"replacing '", token, "' with '", escaped, "'">> >>
                    /\ parse_line(line) = <<"unknown tag '", token, "'">>

\* A repaired line with text on both sides of an unknown token.
C6_Witness ==
    /\ FixDone
    /\ \E i, j \in 2..(Len(line) - 1) : UnknownTokenAt(line, i, j) /\ j > i + 1

----------------------------------------------------------------------------
(* The claims about fix_invalid_tags.                                      *)

\* C11: fix-tags collects, and at its end has written, exactly one output
\* line per input line, in the order of the input: output line i is input
\* line i, unchanged when that line holds no '[' (whatever ']' and
\* backslashes it holds), and what fix_up_line returns for it otherwise.
C11_OneLinePerInputLine ==
    /\ Len(rvec) = idx
    /\ \A i \in 1..idx :
          /\ ~Contains(cont[i], <<"[">>) => rvec[i] = cont[i]
          /\ Contains(cont[i], <<"[">>) => rvec[i] = fix_up_line(cont[i])
    /\ pc = "done" => outf = rvec /\ Len(outf) = Len(cont)
    /\ pc # "done" => outf = <<>>

\* A written document of three lines with a line of no '[' that holds a ']',
\* one that holds a backslash, and a line the repair changed.
C11_Witness ==
    /\ cmd = "fix-tags" /\ pc = "done" /\ Len(cont) = MaxFixDoc
    /\ \E i, j, k \in 1..Len(cont) :
          /\ ~Contains(cont[i], <<"[">>) /\ Contains(cont[i], <<"]">>)
          /\ ~Contains(cont[j], <<"[">>) /\ Contains(cont[j], <<"\\">>)
          /\ outf[k] # cont[k]

----------------------------------------------------------------------------
(* check_grammar goes on after a diagnostic.                               *)

\* What check_grammar printed for line i: the line itself as unrecognized,
\* the results of the scanner.
InvalidDiagAt(i) ==
    \E k \in 1..Len(out) :
        Len(out[k]) = 3 /\ out[k][1] = i /\ out[k][3] = cont[i + 1]
ParseDiagsAt(i) ==
    { out[k][3] : k \in { n \in 1..Len(out) :
                             /\ Len(out[n]) = 5 /\ out[n][2] = "."
                             /\ out[n][1] = i /\ out[n][5] = cont[i + 1] } }

\* C12: whatever was diagnosed before, after every line the validator's
\* state is the role of that line (Invalid included), the run ends only
\* when as many lines were processed as the document has, and at its end
\* every line of the document was classified, validated against the role
\* of the line before it, scanned and checked for a duplicate headword.
C12_RunGoesOn ==
    /\ prev = RoleBefore(idx)
    /\ idx <= Len(cont)
    /\ pc = "done" =>
          /\ idx = Len(cont)
          /\ \A i \in 0..(Len(cont) - 1) :
                /\ InvalidDiagAt(i) <=> RoleAt(i) = "Invalid"
                /\ SeqDiagAt(i) <=> ~can_follow(RoleBefore(i), RoleAt(i))
                /\ ParseDiagsAt(i) = IF parse_line(cont[i + 1]) = <<>> THEN {}
                                      ELSE {parse_line(cont[i + 1])}
                /\ RoleAt(i) = "Key" /\ FirstSeen(cont[i + 1]) < i
                      => DupDiagAt(i, FirstSeen(cont[i + 1]))

\* A finished run with an illegal transition to an unrecognized line, after
\* which a repeated headword and a line with a scanner diagnostic were met.
C12_Witness ==
    /\ cmd = "check" /\ pc = "done"
    /\ \E i, j, k \in 0..(idx - 1) :
          /\ i < j /\ j < k
          /\ RoleAt(i) = "Invalid" /\ SeqDiagAt(i) /\ InvalidDiagAt(i)
          /\ SeqDiagAt(j) /\ DupDiagAt(j, FirstSeen(cont[j + 1]))
          /\ ~SeqDiagAt(k) /\ ParseDiagsAt(k) # {}

----------------------------------------------------------------------------
(* The scanner on a repaired line.                                         *)

IsUnknownTagDiag(d) == Len(d) = 3 /\ d[1] = Msg_unknown

\* C13: for every line L, parse_line(fix_up_line(L)) is not the diagnostic
\* unknown tag.
C13_NoUnknownTagAfterRepair ==
    FixDone => ~IsUnknownTagDiag(parse_line(res))

\* A repaired line whose scan returned unknown tag before the repair.
C13_Witness ==
    /\ FixDone /\ out # <<>> /\ res # line
    /\ IsUnknownTagDiag(parse_line(line))

----------------------------------------------------------------------------
(* What fix_up_line leaves alone.                                          *)

\* s without its backslashes.
NonBackslash(s) == SelectSeq(s, LAMBDA c : c # "\\")

\* a is b with some characters deleted.
RECURSIVE IsSubseq(_, _)
IsSubseq(a, b) ==
    IF a = <<>> THEN TRUE
    ELSE IF b = <<>> THEN FALSE
    ELSE IF Head(a) = Head(b) THEN IsSubseq(Tail(a), Tail(b))
    ELSE IsSubseq(a, Tail(b))

\* C14 as stated: the repair changes a line only at the tokens it classifies
\* Unknown (those it logs): a line without one is returned as it was, and
\* in every line the characters of the input appear in the output unchanged
\* and in order, the output differing from the input by backslashes only.
C14_OnlyUnknownTokensChange ==
    FixDone =>
        /\ out = <<>> => res = line
        /\ IsSubseq(line, res)
        /\ NonBackslash(res) = NonBackslash(line)

\* The line s ends inside a token opened by the '[' at i: that bracket is
\* not escaped and every bracket after it is.
UnterminatedAt(s, i) ==
    /\ s[i] = "[" /\ ~Escaped(s, i)
    /\ \A k \in (i + 1)..Len(s) : s[k] \in {"[", "]"} => Escaped(s, k)

EndsWith(s, t) ==
    Len(t) <= Len(s) /\ SubSeq(s, Len(s) - Len(t) + 1, Len(s)) = t

\* C15 as stated: when the line ends inside a token that was opened and
\* never closed, the output ends with that token exactly as the input has
\* it, whatever the token holds, escaped brackets included.
C15_TrailingTokenVerbatim ==
    FixDone =>
        \A i \in 1..Len(line) :
            UnterminatedAt(line, i) => EndsWith(res, SubSeq(line, i, Len(line)))

----------------------------------------------------------------------------
(* Escaped brackets in the scanner.                                        *)

\* The number of backslashes that directly precede s[i].
RECURSIVE BackslashesBefore(_, _)
BackslashesBefore(s, i) ==
    IF i > 1 /\ s[i - 1] = "\\" THEN 1 + BackslashesBefore(s, i - 1) ELSE 0

\* s[i] is preceded by an unescaped backslash: each backslash of the run
\* before it escapes the next character, so the last one is free to escape
\* s[i] when the run is odd.
EscapedByBackslash(s, i) == BackslashesBefore(s, i) % 2 = 1

\* C16 as stated: at a bracket escaped by an unescaped backslash the scan
\* goes on with the TagStack and the token state as they were, but for an
\* escaped ']' inside a token, which is appended to the token; a '['
\* that no unescaped backslash precedes, met outside a token, opens one.
C16_EscapedBracketsInert ==
    [][cmd = "parse_line" /\ pc = "scan" /\ ScanChar \in {"[", "]"} =>
         IF EscapedByBackslash(Trim(line), pos + 1)
         THEN /\ pc' = "scan" /\ ret' = ret /\ stack' = stack /\ in_sq' = in_sq
              /\ tag' = IF ScanChar = "]" /\ in_sq THEN Append(tag, "]") ELSE tag
         ELSE ScanChar = "[" /\ ~in_sq => in_sq' /\ tag' = <<"[">> /\ stack' = stack
      ]_vars

----------------------------------------------------------------------------
(* The key of the duplicate-key tracker.                                   *)

\* C17 as stated: the KeyIndex is keyed by the trimmed text of the headword
\* lines, and a headword line whose trimmed text is that of an earlier
\* headword line has a duplicate diagnostic.
C17_TrimmedHeadwordKey ==
    /\ DOMAIN words = { Trim(cont[i + 1]) : i \in HeadwordsSeen }
    /\ \A i, j \in HeadwordsSeen :
          i < j /\ Trim(cont[i + 1]) = Trim(cont[j + 1])
              => \E k \in 0..(j - 1) : DupDiagAt(j, k)

----------------------------------------------------------------------------
(* The line classifier.                                                    *)

TabThen(s, p) == StartsWith(s, <<"\t">> \o p)

\* The rules in the order stated, and the role each assigns.
RuleHolds(s) ==
    << s = <<>>,
       StartsWith(s, P_name),
       StartsWith(s, P_index),
       StartsWith(s, P_lang),
       s # <<>> /\ s[1] # "\t",
       TabThen(s, <<>>) /\ Trim(s) \in Romans,
       TabThen(s, <<>>) /\ ~TabThen(s, <<"[">>),
       TabThen(s, T_m1),
       TabThen(s, T_m2),
       Contains(s, T_com),
       TRUE >>

RuleRole ==
    << "EmptyLine", "Name", "Index", "Lang", "Key", "RomanNumber", "Text",
       "M1", "M2", "Comment", "Invalid" >>

FirstRule(s) ==
    CHOOSE k \in 1..Len(RuleRole) :
        RuleHolds(s)[k] /\ \A j \in 1..(k - 1) : ~RuleHolds(s)[j]

Classified == cmd = "line_type" /\ pc = "done"

\* C18: the role of a line is the role of the first rule, in the stated
\* order, that the line matches.  So a line that starts with a tab not
\* followed by '[' and is no roman numeral is Text even when it holds
\* "[com]" or "[m1]", and a line that starts with a tab and '[', not with
\* "[m1]" or "[m2]", and holds no "[com]" is Invalid.
C18_FirstMatchingRule ==
    Classified =>
        /\ prev = RuleRole[FirstRule(line)]
        /\ TabThen(line, <<>>) /\ ~TabThen(line, <<"[">>) /\ Trim(line) \notin Romans
              => prev = "Text"
        /\ TabThen(line, <<"[">>) /\ ~TabThen(line, T_m1) /\ ~TabThen(line, T_m2)
              /\ ~Contains(line, T_com) => prev = "Invalid"

\* A classified line that starts with a tab and a letter and holds "[com]".
C18_Witness ==
    /\ Classified /\ prev = "Text"
    /\ TabThen(line, <<"x">>) /\ Contains(line, T_com)

----------------------------------------------------------------------------
(* The shape of a document without sequence diagnostic.                    *)

HeaderRoles == {"Name", "Index", "Lang"}

\* Line i comes after a headword line.
AfterHeadword(i) == \E h \in 0..(i - 1) : RoleAt(h) = "Key"

\* The blank lines among the first n form one run that starts at line 3.
BlankRunAfterHeaders(n) ==
    \A i \in 0..(n - 1) :
        RoleAt(i) = "EmptyLine" => i >= 3 /\ \A j \in 3..i : RoleAt(j) = "EmptyLine"

\* After the first headword none of the first n lines is blank, a header or
\* unrecognized.
EntriesOnlyAfterHeadword(n) ==
    \A i \in 0..(n - 1) :
        AfterHeadword(i) => RoleAt(i) \notin HeaderRoles \cup {"EmptyLine", "Invalid"}

\* C19 as stated: a finished run without sequence diagnostic has each header
\* role exactly once, at lines 0, 1 and 2, its blank lines in one run
\* directly after them, and entries only after the first headword; and in
\* any run a blank line after a headword has a sequence diagnostic.
C19_SilentDocumentAsStated ==
    /\ pc = "done" /\ NoSeqDiag =>
          /\ Len(cont) >= 3
          /\ RoleAt(0) = "Name" /\ RoleAt(1) = "Index" /\ RoleAt(2) = "Lang"
          /\ \A i \in 3..(Len(cont) - 1) : RoleAt(i) \notin HeaderRoles
          /\ BlankRunAfterHeaders(Len(cont))
          /\ EntriesOnlyAfterHeadword(Len(cont))
    /\ \A i \in 0..(idx - 1) :
          RoleAt(i) = "EmptyLine" /\ AfterHeadword(i) => SeqDiagAt(i)

\* C19: in a run without sequence diagnostic so far, lines 0, 1 and 2, as
\* far as they were read, are the Name, Index and Lang header, no later
\* line is a header, the blank lines form one run directly after the
\* headers, and after the first headword no line is blank, a header or
\* unrecognized; in any run, a blank line after a headword has a sequence
\* diagnostic on it or on a line between the headword and it.
C19_SilentDocumentShape ==
    /\ NoSeqDiag =>
          /\ \A i \in 0..(idx - 1) :
                /\ i = 0 => RoleAt(i) = "Name"
                /\ i = 1 => RoleAt(i) = "Index"
                /\ i = 2 => RoleAt(i) = "Lang"
                /\ i >= 3 => RoleAt(i) \notin HeaderRoles
          /\ BlankRunAfterHeaders(idx)
          /\ EntriesOnlyAfterHeadword(idx)
    /\ \A i \in 0..(idx - 1) : \A h \in 0..(i - 1) :
          RoleAt(h) = "Key" /\ RoleAt(i) = "EmptyLine"
              => \E j \in (h + 1)..i : SeqDiagAt(j)

\* A finished run without sequence diagnostic over a document with a run of
\* two blank lines and an entry.
C19_Witness ==
    /\ cmd = "check" /\ pc = "done" /\ NoSeqDiag
    /\ Cardinality({i \in 0..(idx - 1) : RoleAt(i) = "EmptyLine"}) >= 2
    /\ \E i \in 1..(idx - 1) : RoleAt(i - 1) = "Key" /\ RoleAt(i) = "Text"

----------------------------------------------------------------------------
(* Soundness of the scanner.                                               *)

OpeningKinds == { KindName(t) : t \in OpenTags } \cup {"LangID"}

\* C20: the TagStack holds opening kinds only, and whenever parse_line
\* returns the empty string the scan ended outside a token with nothing
\* accumulated and an empty TagStack, every bracket token of the line is a
\* known tag, and every closing tag closes the opening tag that was
\* innermost when it was met.
C20_ScannerSound ==
    /\ \A k \in 1..Len(stack) : stack[k] \in OpeningKinds
    /\ cmd = "parse_line" /\ pc = "done" /\ ret = <<>> =>
          /\ ~in_sq /\ tag = <<>> /\ stack = <<>>
          /\ BalancedKnown(Trim(line))

\* A line scanned to the empty string that holds an italic span inside a
\* bold span.
C20_Witness ==
    /\ cmd = "parse_line" /\ pc = "done" /\ ret = <<>>
    /\ Tokens(Trim(line)).toks = <<T_b, T_i, T_i_close, T_b_close>>

====
